---- MODULE Spec2Model ----
(***************************************************************************)
(* Model of the annotation-schema normaliser                               *)
(* (mmdet3d_tools/dataset_converters/update_infos_to_v2.py).               *)
(*                                                                         *)
(* Python values are tagged records: the tag t is the Python type, v the   *)
(* payload.  A dict is a TLA+ function whose DOMAIN is the dict's key set, *)
(* a list is a sequence.  File-path strings are sequences of segments, so  *)
(* that Path(p).name is a real operation (the last segment).               *)
(***************************************************************************)
EXTENDS Integers, Sequences, FiniteSets, TLC

VARIABLES
    pc,                 \* position of the converter run
    dataset,            \* argument dataset (a sequence of characters)
    pkl_path,           \* argument pkl_path (path segments)
    out_dir,            \* argument out_dir (path segments)
    data_list,          \* result of mmengine.load(pkl_path)
    nusc,               \* the NuScenes SDK handle
    it,                 \* position of the enumerate() iterator
    i,                  \* the Python variable i
    temp_data_info,     \* the record being filled
    out_path,           \* the Python variable out_path
    converted_list,     \* the output sequence
    ignore_class_name,  \* the Python variable ignore_class_name
    printed,            \* the set printed as "ignore classes"
    dumped,             \* artifacts written by mmengine.dump
    io,                 \* file reads, SDK constructions and file writes so far
    error,              \* the exception that ended the run
    heap_next,          \* number of frame-record objects allocated so far
    temp_id,            \* identity of the object temp_data_info refers to
    converted_ids,      \* identity of each object of converted_list
    prune_calls,        \* top-level pruning calls made on each object
    rec,                \* pruning harness: the record under test
    rec_depth,          \* pruning harness: nesting depth of rec
    once,               \* pruning harness: result of the first pruning
    twice,              \* pruning harness: result of pruning that result
    ppc,                \* pruning harness: position
    rot,                \* extrinsic inversion: sensor2lidar_rotation
    trans,              \* extrinsic inversion: sensor2lidar_translation
    lidar2sensor,       \* extrinsic inversion: the stored lidar2cam list
    class_type,         \* infer_abbr: the argument
    abbr,               \* infer_abbr: the value returned or exception raised
    config,             \* BaseModel: self.config
    pred_dicts,         \* BaseModel: self.pred_dicts
    calls,              \* BaseModel: the hooks the trainer has completed
    evaluated,          \* BaseModel: the lists handed to the metrics so far
    hook_error          \* BaseModel: the exception that ended the run

conv_vars == <<pc, dataset, pkl_path, out_dir, data_list, nusc, it, i,
               temp_data_info, out_path, converted_list, ignore_class_name,
               printed, dumped, io, error, heap_next, temp_id, converted_ids,
               prune_calls>>
heap_vars == <<heap_next, temp_id, converted_ids, prune_calls>>
prune_vars == <<rec, rec_depth, once, twice, ppc>>
geo_vars == <<rot, trans, lidar2sensor>>
abbr_vars == <<class_type, abbr>>
model_vars == <<config, pred_dicts, calls, evaluated, hook_error>>
pure_vars == <<rot, trans, lidar2sensor, class_type, abbr, config, pred_dicts,
               calls, evaluated, hook_error>>
vars == <<pc, dataset, pkl_path, out_dir, data_list, nusc, it, i,
          temp_data_info, out_path, converted_list, ignore_class_name,
          printed, dumped, io, error, heap_next, temp_id, converted_ids,
          prune_calls, rec, rec_depth, once, twice, ppc, rot, trans,
          lidar2sensor, class_type, abbr, config, pred_dicts, calls,
          evaluated, hook_error>>

(***************************************************************************)
(* Bounds                                                                  *)
(***************************************************************************)
MaxFrames == 2
MaxInstances == 2
MaxSweeps == 1
MaxDepth == 1
MaxCalls == 4
MaxBatchSize == 2

(***************************************************************************)
(* Python values                                                           *)
(***************************************************************************)
PyNone == [t |-> "none"]
PyInt(n) == [t |-> "int", v |-> n]
PyBool(b) == [t |-> "bool", v |-> b]
PyStr(s) == [t |-> "str", v |-> s]
PyPath(segs) == [t |-> "path", v |-> segs]
PyFloat(num, den) == [t |-> "float", v |-> <<num, den>>]
PyOpaque(x) == [t |-> "opaque", v |-> x]
PyList(s) == [t |-> "list", v |-> s]
PyDict(d) == [t |-> "dict", v |-> d]

EmptyDict == [k \in {} |-> PyNone]

Range(s) == {s[j] : j \in DOMAIN s}

\* d[k] = v
SetItem(d, k, v) == (k :> v) @@ d

\* Path(p).name
PathName(p) == IF Len(p) = 0 THEN <<>> ELSE <<p[Len(p)]>>

\* osp.join(a, b) for a relative b
PathJoin(a, b) == a \o b

(***************************************************************************)
(* Empty-record factories                                                  *)
(***************************************************************************)
get_empty_instance ==
    [bbox |-> PyNone, bbox_label |-> PyNone, bbox_3d |-> PyNone,
     bbox_3d_isvalid |-> PyNone, bbox_label_3d |-> PyNone, depth |-> PyNone,
     center_2d |-> PyNone, attr_label |-> PyNone, num_lidar_pts |-> PyNone,
     num_radar_pts |-> PyNone, difficulty |-> PyNone,
     unaligned_bbox_3d |-> PyNone]

get_empty_multicamera_instances(camera_types) ==
    [cam_type \in Range(camera_types) |-> PyNone]

get_empty_lidar_points ==
    [num_pts_feats |-> PyNone, lidar_path |-> PyNone, lidar2ego |-> PyNone]

get_empty_radar_points ==
    [num_pts_feats |-> PyNone, radar_path |-> PyNone, radar2ego |-> PyNone]

\* mutant: the image template lacks cam2ego
get_empty_img_info_NoCam2Ego ==
    [img_path |-> PyNone, height |-> PyNone, width |-> PyNone,
     depth_map |-> PyNone, cam2img |-> PyNone, lidar2img |-> PyNone]

get_empty_img_info ==
    [img_path |-> PyNone, height |-> PyNone, width |-> PyNone,
     depth_map |-> PyNone, cam2img |-> PyNone, lidar2img |-> PyNone,
     cam2ego |-> PyNone]

get_single_image_sweep(camera_types) ==
    [timestamp |-> PyNone, ego2global |-> PyNone,
     images |-> PyDict([cam_type \in Range(camera_types) |->
                            PyDict(get_empty_img_info)])]

get_single_lidar_sweep ==
    [timestamp |-> PyNone, ego2global |-> PyNone,
     lidar_points |-> PyDict(get_empty_lidar_points)]

get_empty_standard_data_info(camera_types) ==
    [sample_idx |-> PyNone, token |-> PyNone]
    @@ get_single_image_sweep(camera_types)
    @@ [lidar_points |-> PyDict(get_empty_lidar_points),
        radar_points |-> PyDict(get_empty_radar_points),
        image_sweeps |-> PyList(<<>>), lidar_sweeps |-> PyList(<<>>),
        instances |-> PyList(<<>>), instances_ignore |-> PyList(<<>>),
        pts_semantic_mask_path |-> PyNone,
        pts_instance_mask_path |-> PyNone, scene_token |-> PyNone]

(***************************************************************************)
(* Pruning                                                                 *)
(***************************************************************************)
\* mutant: the test is on truthiness, so a zero goes with the None values
clear_instance_unused_keys_Falsy(instance) ==
    [k \in {k \in DOMAIN instance :
               /\ instance[k].t # "none"
               /\ ~(instance[k].t = "int" /\ instance[k].v = 0)} |->
        instance[k]]

\* lines 185-190: the keys whose value is None are deleted
clear_instance_unused_keys(instance) ==
    [k \in {k \in DOMAIN instance : instance[k].t # "none"} |-> instance[k]]

\* mutant: cam_instances is forgotten in the list of protected keys
ProtectedKeys_NoCam == {"instances", "cam_sync_instances"}

\* the keys the pruning pass never touches (line 198)
ProtectedKeys == {"instances", "cam_sync_instances", "cam_instances"}

\* mutant: the else branch of the recursion (lines 213-215) is missing, a
\* nested mapping is never deleted
PruneDeletes_DictKept(key, value, sub_empty_flag) ==
    IF key \in ProtectedKeys THEN FALSE
    ELSE IF value.t = "list" THEN Len(value.v) = 0
    ELSE IF value.t = "none" THEN TRUE
    ELSE FALSE

\* one iteration of the pruning loop: does it delete data_info[key]?
\* sub_empty_flag is the flag of the recursive call (dict values only)
PruneDeletes(key, value, sub_empty_flag) ==
    IF key \in ProtectedKeys THEN FALSE
    ELSE IF value.t = "list" THEN Len(value.v) = 0
    ELSE IF value.t = "none" THEN TRUE
    ELSE IF value.t = "dict" THEN sub_empty_flag
    ELSE FALSE

\* mutant: the None branch deletes the key and also sets empty_flag = False
PruneClearsFlag_NoneCounts(key, value, sub_empty_flag) ==
    IF key \in ProtectedKeys THEN TRUE
    ELSE IF value.t = "list" THEN Len(value.v) # 0
    ELSE IF value.t = "none" THEN TRUE
    ELSE IF value.t = "dict" THEN sub_empty_flag = FALSE
    ELSE TRUE

\* one iteration of the pruning loop: does it set empty_flag = False?
PruneClearsFlag(key, value, sub_empty_flag) ==
    IF key \in ProtectedKeys THEN TRUE
    ELSE IF value.t = "list" THEN Len(value.v) # 0
    ELSE IF value.t = "none" THEN FALSE
    ELSE IF value.t = "dict" THEN sub_empty_flag = FALSE
    ELSE TRUE

RECURSIVE clear_data_info_unused_keys(_)
clear_data_info_unused_keys(data_info) ==
    LET keys == DOMAIN data_info
        recurses(key) == key \notin ProtectedKeys /\ data_info[key].t = "dict"
        sub(key) == clear_data_info_unused_keys(data_info[key].v)
        flag(key) == IF recurses(key) THEN sub(key).empty_flag ELSE FALSE
        kept == {key \in keys : ~PruneDeletes(key, data_info[key], flag(key))}
    IN  [data_info |->
            [key \in kept |-> IF recurses(key)
                              THEN PyDict(sub(key).data_info)
                              ELSE data_info[key]],
         empty_flag |->
            \A key \in keys : ~PruneClearsFlag(key, data_info[key], flag(key))]

(***************************************************************************)
(* Pruning harness: records of nested mappings, lists, None and scalars    *)
(* are built bottom-up, then pruned, then the result is pruned again.      *)
(***************************************************************************)
PruneKeys ==
    {"instances", "cam_sync_instances", "cam_instances", "radar_points", "token"}
LeafValues == {PyNone, PyInt(1), PyList(<<>>), PyList(<<PyInt(1)>>)}
SiblingValues == {PyNone, PyInt(1)}

LeafDicts ==
    {EmptyDict}
    \cup {(k :> v) : k \in PruneKeys, v \in LeafValues}
    \cup {(k1 :> v1) @@ (k2 :> v2) :
            k1 \in PruneKeys, k2 \in PruneKeys, v1 \in LeafValues, v2 \in LeafValues}

Siblings(key) ==
    {EmptyDict} \cup {(k :> v) : k \in PruneKeys \ {key}, v \in SiblingValues}

NoResult == [data_info |-> EmptyDict, empty_flag |-> FALSE]

PruneIdle ==
    /\ rec = EmptyDict /\ rec_depth = 0
    /\ once = NoResult /\ twice = NoResult /\ ppc = "idle"

ConvIdle ==
    /\ pc = "idle" /\ dataset = <<>> /\ pkl_path = <<>> /\ out_dir = <<>>
    /\ data_list = EmptyDict /\ nusc = PyNone /\ it = 0 /\ i = 0
    /\ temp_data_info = EmptyDict /\ out_path = <<>> /\ converted_list = <<>>
    /\ ignore_class_name = PyNone /\ printed = PyNone /\ dumped = <<>>
    /\ io = <<>> /\ error = "none"
    /\ heap_next = 0 /\ temp_id = 0 /\ converted_ids = <<>>
    /\ prune_calls = <<>>

GeoIdle == rot = <<>> /\ trans = <<>> /\ lidar2sensor = <<>>

AbbrIdle == class_type = <<>> /\ abbr = <<>>

ModelIdle ==
    /\ config = <<>> /\ pred_dicts = <<>> /\ calls = <<>>
    /\ evaluated = <<>> /\ hook_error = "idle"

InitPrune ==
    /\ rec \in LeafDicts /\ rec_depth = 0
    /\ once = NoResult /\ twice = NoResult /\ ppc = "build"
    /\ ConvIdle /\ GeoIdle /\ AbbrIdle /\ ModelIdle

\* wrap the record under test into a parent mapping, under any key
Nest ==
    /\ ppc = "build" /\ rec_depth < MaxDepth
    /\ \E key \in PruneKeys : \E sib \in Siblings(key) :
          rec' = SetItem(sib, key, PyDict(rec))
    /\ rec_depth' = rec_depth + 1
    /\ UNCHANGED <<once, twice, ppc>>
    /\ UNCHANGED conv_vars
    /\ UNCHANGED pure_vars

PruneOnce ==
    /\ ppc = "build"
    /\ once' = clear_data_info_unused_keys(rec)
    /\ ppc' = "once"
    /\ UNCHANGED <<rec, rec_depth, twice>>
    /\ UNCHANGED conv_vars
    /\ UNCHANGED pure_vars

PruneTwice ==
    /\ ppc = "once"
    /\ twice' = clear_data_info_unused_keys(once.data_info)
    /\ ppc' = "twice"
    /\ UNCHANGED <<rec, rec_depth, once>>
    /\ UNCHANGED conv_vars
    /\ UNCHANGED pure_vars

NextPrune == Nest \/ PruneOnce \/ PruneTwice

SpecPrune == InitPrune /\ [][NextPrune]_vars

\* C4: pruning the result of pruning a record returns the same record and
\* the same empty flag as the first pruning.
C4_PruneIdempotent ==
    ppc = "twice" =>
        /\ twice.data_info = once.data_info
        /\ twice.empty_flag = once.empty_flag

\* C4 witness: a second pruning has run on a record from which the first
\* pruning removed a nested mapping and kept another field.
C4_Witness ==
    /\ ppc = "twice"
    /\ rec_depth >= 1
    /\ \E k \in DOMAIN rec : rec[k].t = "dict" /\ k \notin DOMAIN once.data_info
    /\ DOMAIN once.data_info # {}

\* does the pruning pass meet one of the three annotation keys in d, at any
\* depth it visits?
RECURSIVE VisitsAnnotationKey(_)
VisitsAnnotationKey(d) ==
    \E k \in DOMAIN d :
        \/ k \in {"instances", "cam_instances", "cam_sync_instances"}
        \/ d[k].t = "dict" /\ VisitsAnnotationKey(d[k].v)

RECURSIVE AnnotationKeysKept(_, _)
AnnotationKeysKept(before, after) ==
    \A k \in DOMAIN before :
        IF k \in {"instances", "cam_instances", "cam_sync_instances"}
        THEN k \in DOMAIN after /\ after[k] = before[k]
        ELSE before[k].t = "dict" =>
                /\ VisitsAnnotationKey(before[k].v) => k \in DOMAIN after
                /\ k \in DOMAIN after =>
                      /\ after[k].t = "dict"
                      /\ AnnotationKeysKept(before[k].v, after[k].v)

\* C5: at every mapping depth the pruning pass visits, instances,
\* cam_instances and cam_sync_instances are kept with their value unchanged,
\* whatever it is, and a mapping that contains such a key is not deleted by
\* its parent call.
C5_ProtectedKeysKept ==
    ppc \in {"once", "twice"} => AnnotationKeysKept(rec, once.data_info)

\* C5 witness: a pruned record that held, below an ordinary key, a mapping
\* whose only field is cam_instances = None, and instances = None.
C5_Witness ==
    /\ ppc = "once"
    /\ "instances" \in DOMAIN rec /\ rec["instances"] = PyNone
    /\ "radar_points" \in DOMAIN rec
    /\ rec["radar_points"] = PyDict(("cam_instances" :> PyNone))

(***************************************************************************)
(* External collaborators and numeric helpers                              *)
(***************************************************************************)
PyArray(a) == [t |-> "array", v |-> a]

\* the value of d[k] once the subscript has succeeded; Missing stands for
\* the value of a subscript that raised KeyError
Missing == [t |-> "missing", v |-> <<>>]
Item(d, k) == IF k \in DOMAIN d THEN d[k] ELSE Missing

\* d.get(k, default)
Get(d, k, default) == IF k \in DOMAIN d THEN d[k] ELSE default

\* mmdet3d.datasets.utils.convert_quaternion_to_matrix: an uninterpreted
\* non-empty nested list determined by its two arguments
convert_quaternion_to_matrix(quaternion, translation) ==
    PyList(<<PyOpaque(<<quaternion.v, translation.v>>)>>)

\* mutant: the value is left undivided
Divide_Undivided(x, divisor) == PyFloat(x.v, 1)

\* x / divisor for an integer x: the exact quotient as a fraction
Divide(x, divisor) == PyFloat(x.v, divisor)

\* ndarray.tolist(): a (nested) list of numbers with the array's shape and
\* elements; of marks a list whose elements are numbers, not Python values
PyNumberList(a) == [t |-> "list", of |-> "number", v |-> a]
ToList(a) == PyNumberList(a.v)
RowToList(row) == PyNumberList(row)

\* the number of significand bits of numpy.float32
Float32Precision == 24

Abs(x) == IF x < 0 THEN 0 - x ELSE x

\* the number of binary digits of a natural number
RECURSIVE BitLength(_)
BitLength(n) == IF n = 0 THEN 0 ELSE 1 + BitLength(n \div 2)

\* ndarray.astype(np.float32) on an integer-valued float64: the nearest
\* value with Float32Precision significant bits, ties to the even one
Float32(x) ==
    LET a == Abs(x)
        spacing == 2 ^ (BitLength(a) - Float32Precision)
        q == a \div spacing
        r == a % spacing
        up == 2 * r > spacing \/ (2 * r = spacing /\ q % 2 = 1)
        rounded == IF up THEN (q + 1) * spacing ELSE q * spacing
    IN  IF BitLength(a) <= Float32Precision THEN x
        ELSE IF x < 0 THEN 0 - rounded ELSE rounded

\* mutant: the rotation block is not transposed
InverseRT_NoTranspose(rotation, translation) ==
    LET R == rotation.v
        tr == translation.v
        Rt(r) == R[r][1] * tr[1] + R[r][2] * tr[2] + R[r][3] * tr[3]
        m == [r \in 1..4 |-> [c \in 1..4 |->
                Float32(IF r <= 3 /\ c <= 3 THEN R[r][c]
                        ELSE IF r <= 3 THEN (-1) * Rt(r)
                        ELSE IF c = 4 THEN 1 ELSE 0)]]
    IN  ToList(PyArray(m))

\* lidar2sensor = eye(4); [:3,:3] = rot.T; [:3,3:4] = -1 * (rot.T @ trans);
\* lidar2sensor.astype(np.float32).tolist()
InverseRT(rotation, translation) ==
    LET R == rotation.v
        tr == translation.v
        RT(r, c) == R[c][r]
        RTt(r) == RT(r, 1) * tr[1] + RT(r, 2) * tr[2] + RT(r, 3) * tr[3]
        m == [r \in 1..4 |-> [c \in 1..4 |->
                Float32(IF r <= 3 /\ c <= 3 THEN RT(r, c)
                        ELSE IF r <= 3 THEN (-1) * RTt(r)
                        ELSE IF c = 4 THEN 1 ELSE 0)]]
    IN  ToList(PyArray(m))

\* the NuScenes handle of one run
NuScenes(version) == [t |-> "nusc", v |-> version]

\* mmdet3d.datasets.convert_utils.get_nuscenes_2d_boxes: the 2D boxes the
\* SDK projects into one camera frame; the camera frame CAM_BACK shows none
get_nuscenes_2d_boxes(handle, sample_data_token, visibilities) ==
    IF sample_data_token.v = "CAM_BACK" THEN PyList(<<>>)
    ELSE PyList(<<PyOpaque(<<sample_data_token.v, visibilities>>)>>)

METAINFO_classes ==
    <<"car", "truck", "trailer", "bus", "construction_vehicle", "bicycle",
      "motorcycle", "pedestrian", "traffic_cone", "barrier">>

\* mutant: the index is counted from one
ClassIndex_OneBased(name) ==
    CHOOSE k \in DOMAIN METAINFO_classes : METAINFO_classes[k] = name

\* METAINFO['classes'].index(name)
ClassIndex(name) ==
    (CHOOSE k \in DOMAIN METAINFO_classes : METAINFO_classes[k] = name) - 1

nuscenes_camera_types ==
    <<"CAM_FRONT", "CAM_FRONT_RIGHT", "CAM_FRONT_LEFT", "CAM_BACK",
      "CAM_BACK_LEFT", "CAM_BACK_RIGHT">>

argo2_camera_types ==
    <<"ring_front_center", "ring_front_left", "ring_front_right",
      "ring_rear_left", "ring_rear_right", "ring_side_left",
      "ring_side_right">>

(***************************************************************************)
(* Source records (the input artifact)                                     *)
(***************************************************************************)
Rz90 == <<<<0, -1, 0>>, <<1, 0, 0>>, <<0, 0, 1>>>>

Without(d, keys) == [k \in DOMAIN d \ keys |-> d[k]]

\* The input artifact is held as a description of each source record: what
\* varies from one record to the next.  SrcFrame and SrcSweep give the
\* record a description stands for.
SrcSweep(sweep) ==
    Without(
        [sensor2ego_rotation |-> PyOpaque("q_s2e"),
         sensor2ego_translation |-> PyOpaque("t_s2e"),
         ego2global_rotation |-> PyOpaque("q_e2g"),
         ego2global_translation |-> PyOpaque("t_e2g"),
         sensor2lidar_rotation |-> PyArray(Rz90),
         sensor2lidar_translation |-> PyArray(<<1, 2, 3>>),
         ego2lidar_rotation |-> PyArray(Rz90),
         ego2lidar_translation |-> PyArray(<<1, 2, 3>>),
         timestamp |-> PyInt(900000),
         data_path |-> PyPath(sweep.data_path),
         sample_data_token |-> PyStr("sweep_token")],
        sweep.absent)

SweepInputs ==
    {[data_path |-> <<"sweeps", "LIDAR_TOP", "s.bin">>, absent |-> {}],
     [data_path |-> <<"s.bin">>, absent |-> {"data_path"}]}

SrcCam(cam) ==
    [data_path |-> PyPath(<<"samples", cam, "img.jpg">>),
     cam_intrinsic |-> PyArray(<<<<2, 0, 1>>, <<0, 2, 1>>, <<0, 0, 1>>>>),
     sample_data_token |-> PyStr(cam),
     timestamp |-> PyInt(1000000),
     sensor2ego_rotation |-> PyOpaque("q_c2e"),
     sensor2ego_translation |-> PyOpaque("t_c2e"),
     sensor2lidar_rotation |-> PyArray(Rz90),
     sensor2lidar_translation |-> PyArray(<<1, 2, 3>>)]

\* the source frame record a description stands for
SrcFrame(frame) ==
    Without(
        [token |-> PyStr("token"),
         ego2global_rotation |-> PyOpaque("q_e2g"),
         ego2global_translation |-> PyOpaque("t_e2g"),
         num_features |-> PyInt(4),
         lidar_path |-> PyPath(frame.lidar_path),
         lidar2ego_rotation |-> PyOpaque("q_l2e"),
         lidar2ego_translation |-> PyOpaque("t_l2e"),
         timestamp |-> PyInt(1000000),
         scene_token |-> PyStr("scene"),
         sweeps |-> PyList([s \in DOMAIN frame.sweeps |->
                               PyDict(SrcSweep(frame.sweeps[s]))]),
         cams |-> PyDict([cam \in frame.cams |-> PyDict(SrcCam(cam))]),
         gt_boxes |-> PyArray([j \in DOMAIN frame.names |->
                                  <<j, 0, 0, 1, 1, 1, 0>>]),
         gt_names |-> PyArray(frame.names),
         gt_velocity |-> PyArray([j \in DOMAIN frame.names |-> <<j, 0>>]),
         num_lidar_pts |-> PyArray([j \in DOMAIN frame.names |-> 10 + j]),
         num_radar_pts |-> PyArray([j \in DOMAIN frame.names |-> j]),
         valid_flag |-> PyArray([j \in DOMAIN frame.names |-> TRUE]),
         pts_semantic_mask_path |-> PyPath(<<"lidarseg", "mask.bin">>)],
        frame.absent)

FrameKeys ==
    {"token", "ego2global_rotation", "ego2global_translation",
     "num_features", "lidar_path", "lidar2ego_rotation",
     "lidar2ego_translation", "timestamp", "scene_token", "sweeps", "cams",
     "gt_boxes", "gt_names", "gt_velocity", "num_lidar_pts", "num_radar_pts",
     "valid_flag", "pts_semantic_mask_path"}

ClassNames == {"pedestrian", "alien_ship"}

SeqsUpTo(S, n) == UNION {[1..m -> S] : m \in 0..n}

DefaultLidarPath == <<"samples", "LIDAR_TOP", "f.bin">>

Frame(names, sweeps, cams, lidar_path, absent) ==
    [names |-> names, sweeps |-> sweeps, cams |-> cams,
     lidar_path |-> lidar_path, absent |-> absent]

\* a complete frame with one box of an unknown class and no sweep
DefaultFrame(camera_types) ==
    Frame(<<"alien_ship">>, <<>>, Range(camera_types), DefaultLidarPath, {})

\* complete frames, one for every list of class names
NameFrames(camera_types) ==
    {Frame(names, <<>>, Range(camera_types), DefaultLidarPath, {}) :
        names \in SeqsUpTo(ClassNames, MaxInstances)}

\* frames that differ from the default frame otherwise: every non-empty list
\* of sweeps, several camera sets, a frame whose first box is of the first
\* class of the taxonomy, and every frame that lacks one field
VariantFrames(camera_types) ==
    {Frame(<<"alien_ship">>, sweeps, Range(camera_types), DefaultLidarPath, {}) :
        sweeps \in SeqsUpTo(SweepInputs, MaxSweeps) \ {<<>>}}
    \cup {Frame(<<"pedestrian">>, <<>>, cams, <<"f.bin">>, {}) :
            cams \in {{}, {camera_types[1]}}}
    \cup {Frame(<<>>, <<>>, {camera_types[1]}, <<"f.bin">>, {"gt_boxes"})}
    \cup {Frame(<<"car", "alien_ship">>, <<>>, Range(camera_types),
                DefaultLidarPath, {})}
    \cup {Frame(<<"alien_ship">>, <<>>, Range(camera_types), DefaultLidarPath,
                {k}) : k \in FrameKeys}

\* the input artifacts: every list of frames that differ in their class
\* names, and every list of default frames that ends with a variant frame;
\* two short lists carry another metadata version
Inputs(camera_types) ==
    {[infos |-> infos, metadata |-> [version |-> "v1.0-trainval"]] :
        infos \in {<<>>, <<DefaultFrame(camera_types)>>}}
    \cup
    {[infos |-> infos, metadata |-> [version |-> "v1.0-mini"]] :
        infos \in SeqsUpTo(NameFrames(camera_types), MaxFrames)
            \cup {[k \in 1..m |-> IF k < m THEN DefaultFrame(camera_types)
                                   ELSE last] :
                    m \in 1..MaxFrames,
                    last \in VariantFrames(camera_types)}}

(***************************************************************************)
(* Per-frame mapper, nuScenes driver                                       *)
(***************************************************************************)
PySet(S) == [t |-> "set", v |-> S]
Unbound == [t |-> "unbound"]

\* mutant: ignore_class_name = set() precedes the frame loop
ignore_class_name_before_loop_EmptySet == PySet({})

\* the binding of ignore_class_name when the frame loop starts: no statement
\* before the loop assigns it (lines 382-408, 247-270)
ignore_class_name_before_loop == Unbound

\* mutant: the last row of gt_boxes is not visited
NumInstances_DropLast(ori_info_dict) == Len(ori_info_dict["gt_boxes"].v) - 1

\* ori_info_dict['gt_boxes'].shape[0]
NumInstances(ori_info_dict) == Len(ori_info_dict["gt_boxes"].v)

\* mutant: scene_token is read with a default instead of a subscript
nuscenes_frame_keys_NoSceneToken ==
    {"token", "ego2global_rotation", "ego2global_translation", "lidar_path",
     "lidar2ego_rotation", "lidar2ego_translation", "timestamp", "sweeps",
     "cams"}

\* the fields of the source frame the nuScenes driver subscripts
\* unconditionally
nuscenes_frame_keys ==
    {"token", "ego2global_rotation", "ego2global_translation", "lidar_path",
     "lidar2ego_rotation", "lidar2ego_translation", "timestamp",
     "scene_token", "sweeps", "cams"}

\* the fields of a sweep the nuScenes driver subscripts
nuscenes_sweep_keys ==
    {"sensor2ego_rotation", "sensor2ego_translation", "ego2global_rotation",
     "ego2global_translation", "sensor2lidar_rotation",
     "sensor2lidar_translation", "timestamp", "data_path",
     "sample_data_token"}

\* the fields of a camera record both drivers subscript
camera_keys ==
    {"data_path", "cam_intrinsic", "sample_data_token", "timestamp",
     "sensor2ego_rotation", "sensor2ego_translation",
     "sensor2lidar_rotation", "sensor2lidar_translation"}

\* the fields the nuScenes driver subscripts once per source box
nuscenes_instance_keys ==
    {"gt_names", "gt_velocity", "num_lidar_pts", "num_radar_pts",
     "valid_flag"}

\* does generate_nuscenes_camera_instances raise KeyError?
camera_instances_raise(info) ==
    \E cam \in Range(nuscenes_camera_types) :
        \/ cam \notin DOMAIN Item(info, "cams").v
        \/ "sample_data_token" \notin DOMAIN Item(info, "cams").v[cam].v

\* does the body of the frame loop raise KeyError on ori_info_dict?
nuscenes_raises(ori_info_dict) ==
    \/ \E k \in nuscenes_frame_keys : k \notin DOMAIN ori_info_dict
    \/ \E s \in DOMAIN Item(ori_info_dict, "sweeps").v :
          \E k \in nuscenes_sweep_keys :
              k \notin DOMAIN ori_info_dict["sweeps"].v[s].v
    \/ \E cam \in DOMAIN Item(ori_info_dict, "cams").v :
          \E k \in camera_keys : k \notin DOMAIN ori_info_dict["cams"].v[cam].v
    \/ /\ "gt_boxes" \in DOMAIN ori_info_dict
       /\ \/ /\ NumInstances(ori_info_dict) > 0
             /\ \E k \in nuscenes_instance_keys : k \notin DOMAIN ori_info_dict
          \/ camera_instances_raise(ori_info_dict)

\* mutant: a camera whose projected list is empty keeps the template's None
generate_nuscenes_camera_instances_SkipEmpty(info, handle) ==
    [cam \in {c \in Range(nuscenes_camera_types) :
                get_nuscenes_2d_boxes(
                    handle,
                    Item(Item(Item(info, "cams").v, c).v, "sample_data_token"),
                    <<"", "1", "2", "3", "4">>).v # <<>>} |->
        get_nuscenes_2d_boxes(
            handle,
            Item(Item(Item(info, "cams").v, cam).v, "sample_data_token"),
            <<"", "1", "2", "3", "4">>)]
    @@ get_empty_multicamera_instances(nuscenes_camera_types)

\* lines 221-244
generate_nuscenes_camera_instances(info, handle) ==
    [cam \in Range(nuscenes_camera_types) |->
        get_nuscenes_2d_boxes(
            handle,
            Item(Item(Item(info, "cams").v, cam).v, "sample_data_token"),
            <<"", "1", "2", "3", "4">>)]
    @@ get_empty_multicamera_instances(nuscenes_camera_types)

\* one lidar sweep record (lines 430-449)
nuscenes_lidar_sweep(ori_sweep) ==
    [lidar_points |-> PyDict(
        [lidar2ego |-> convert_quaternion_to_matrix(
                           Item(ori_sweep, "sensor2ego_rotation"),
                           Item(ori_sweep, "sensor2ego_translation")),
         lidar2sensor |-> InverseRT(Item(ori_sweep, "sensor2lidar_rotation"),
                                    Item(ori_sweep, "sensor2lidar_translation")),
         lidar_path |-> Item(ori_sweep, "data_path")]
        @@ get_single_lidar_sweep.lidar_points.v),
     ego2global |-> convert_quaternion_to_matrix(
                        Item(ori_sweep, "ego2global_rotation"),
                        Item(ori_sweep, "ego2global_translation")),
     timestamp |-> Divide(Item(ori_sweep, "timestamp"), 1000000),
     sample_data_token |-> Item(ori_sweep, "sample_data_token")]
    @@ get_single_lidar_sweep

\* one per-camera image record (lines 453-472)
nuscenes_img_info(cam_info) ==
    [img_path |-> PyPath(PathName(Item(cam_info, "data_path").v)),
     cam2img |-> ToList(Item(cam_info, "cam_intrinsic")),
     sample_data_token |-> Item(cam_info, "sample_data_token"),
     timestamp |-> Divide(Item(cam_info, "timestamp"), 1000000),
     cam2ego |-> convert_quaternion_to_matrix(
                     Item(cam_info, "sensor2ego_rotation"),
                     Item(cam_info, "sensor2ego_translation")),
     lidar2cam |-> InverseRT(Item(cam_info, "sensor2lidar_rotation"),
                             Item(cam_info, "sensor2lidar_translation"))]
    @@ get_empty_img_info

\* the label of a class name (lines 481-486)
bbox_label(name) ==
    IF name \in Range(METAINFO_classes) THEN ClassIndex(name) ELSE -1

\* instance j (counted from 1) before clear_instance_unused_keys
\* (lines 478-496)
nuscenes_instance(ori_info_dict, j) ==
    [bbox_3d |-> RowToList(ori_info_dict["gt_boxes"].v[j]),
     bbox_label |-> PyInt(bbox_label(ori_info_dict["gt_names"].v[j])),
     bbox_label_3d |-> PyInt(bbox_label(ori_info_dict["gt_names"].v[j])),
     velocity |-> RowToList(ori_info_dict["gt_velocity"].v[j]),
     num_lidar_pts |-> PyInt(ori_info_dict["num_lidar_pts"].v[j]),
     num_radar_pts |-> PyInt(ori_info_dict["num_radar_pts"].v[j]),
     bbox_3d_isvalid |-> PyBool(ori_info_dict["valid_flag"].v[j])]
    @@ get_empty_instance

\* the names added to ignore_class_name while one frame is mapped
frame_ignore_class_name(ori_info_dict) ==
    IF "gt_boxes" \in DOMAIN ori_info_dict
    THEN {ori_info_dict["gt_names"].v[j] : j \in
            {j \in 1..NumInstances(ori_info_dict) :
                ori_info_dict["gt_names"].v[j] \notin Range(METAINFO_classes)}}
    ELSE {}

\* temp_data_info at line 504, before pruning, for the frame at position idx
nuscenes_frame(idx, ori_info_dict, handle) ==
    LET sweeps == Item(ori_info_dict, "sweeps").v
        cams == Item(ori_info_dict, "cams").v
        annotations ==
            IF "gt_boxes" \in DOMAIN ori_info_dict
            THEN [instances |-> PyList(
                     [j \in 1..NumInstances(ori_info_dict) |->
                        PyDict(clear_instance_unused_keys(
                                   nuscenes_instance(ori_info_dict, j)))]),
                  cam_instances |-> PyDict(
                     generate_nuscenes_camera_instances(ori_info_dict, handle))]
            ELSE EmptyDict
        mask ==
            IF "pts_semantic_mask_path" \in DOMAIN ori_info_dict
            THEN [pts_semantic_mask_path |-> PyPath(PathName(
                     ori_info_dict["pts_semantic_mask_path"].v))]
            ELSE EmptyDict
    IN  mask @@ annotations
        @@ [sample_idx |-> PyInt(idx),
            token |-> Item(ori_info_dict, "token"),
            ego2global |-> convert_quaternion_to_matrix(
                               Item(ori_info_dict, "ego2global_rotation"),
                               Item(ori_info_dict, "ego2global_translation")),
            lidar_points |-> PyDict(
               [num_pts_feats |-> Get(ori_info_dict, "num_features", PyInt(5)),
                lidar_path |-> PyPath(PathName(
                                  Item(ori_info_dict, "lidar_path").v)),
                lidar2ego |-> convert_quaternion_to_matrix(
                                  Item(ori_info_dict, "lidar2ego_rotation"),
                                  Item(ori_info_dict, "lidar2ego_translation"))]
               @@ get_empty_lidar_points),
            timestamp |-> Divide(Item(ori_info_dict, "timestamp"), 1000000),
            scene_token |-> Item(ori_info_dict, "scene_token"),
            lidar_sweeps |-> PyList([s \in DOMAIN sweeps |->
                                PyDict(nuscenes_lidar_sweep(sweeps[s].v))]),
            images |-> PyDict([cam \in DOMAIN cams |->
                                PyDict(nuscenes_img_info(cams[cam].v))])]
        @@ get_empty_standard_data_info(nuscenes_camera_types)

\* mutant: the frame index is not rebound by enumerate: it is the value the
\* previous iteration left in i, plus one
FrameIndex_Carried(pos, loop_var) == IF pos = 0 THEN 0 ELSE loop_var + 1

\* for i, ori_info_dict in enumerate(...): every iteration binds i to the
\* position of the frame, whatever value the previous iteration left in i
FrameIndex(pos, loop_var) == pos

\* the value of i when the body of the frame loop ends: the inner loop over
\* the instances rebinds the loop variable
IndexAfterFrame(idx, ori_info_dict) ==
    IF "gt_boxes" \in DOMAIN ori_info_dict /\ NumInstances(ori_info_dict) > 0
    THEN NumInstances(ori_info_dict) - 1
    ELSE idx

(***************************************************************************)
(* Per-frame mapper, Argoverse2 driver                                     *)
(***************************************************************************)
argo2_frame_keys ==
    {"token", "ego2global_rotation", "ego2global_translation", "lidar_path",
     "lidar2ego_rotation", "lidar2ego_translation", "timestamp",
     "scene_token", "sweeps", "cams"}

argo2_sweep_keys ==
    {"sensor2ego_rotation", "sensor2ego_translation", "ego2global_rotation",
     "ego2global_translation", "ego2lidar_rotation", "ego2lidar_translation",
     "timestamp", "data_path", "sample_data_token"}

argo2_instance_keys ==
    {"gt_names", "gt_velocity", "num_lidar_pts", "valid_flag"}

argo2_raises(ori_info_dict) ==
    \/ \E k \in argo2_frame_keys : k \notin DOMAIN ori_info_dict
    \/ \E s \in DOMAIN Item(ori_info_dict, "sweeps").v :
          \E k \in argo2_sweep_keys :
              k \notin DOMAIN ori_info_dict["sweeps"].v[s].v
    \/ \E cam \in DOMAIN Item(ori_info_dict, "cams").v :
          \E k \in camera_keys : k \notin DOMAIN ori_info_dict["cams"].v[cam].v
    \/ /\ "gt_boxes" \in DOMAIN ori_info_dict
       /\ NumInstances(ori_info_dict) > 0
       /\ \E k \in argo2_instance_keys : k \notin DOMAIN ori_info_dict

\* one lidar sweep record (lines 291-313)
argo2_lidar_sweep(ori_sweep) ==
    [lidar_points |-> PyDict(
        [lidar2ego |-> convert_quaternion_to_matrix(
                           Item(ori_sweep, "sensor2ego_rotation"),
                           Item(ori_sweep, "sensor2ego_translation")),
         lidar2ego_s |-> InverseRT(Item(ori_sweep, "ego2lidar_rotation"),
                                   Item(ori_sweep, "ego2lidar_translation")),
         lidar_path |-> Item(ori_sweep, "data_path")]
        @@ get_single_lidar_sweep.lidar_points.v),
     ego2global |-> convert_quaternion_to_matrix(
                        Item(ori_sweep, "ego2global_rotation"),
                        Item(ori_sweep, "ego2global_translation")),
     timestamp |-> Divide(Item(ori_sweep, "timestamp"), 1000000000),
     sample_data_token |-> Item(ori_sweep, "sample_data_token")]
    @@ get_single_lidar_sweep

\* one per-camera image record (lines 317-336)
argo2_img_info(cam_info) ==
    [img_path |-> PyPath(PathName(Item(cam_info, "data_path").v)),
     cam2img |-> ToList(Item(cam_info, "cam_intrinsic")),
     sample_data_token |-> Item(cam_info, "sample_data_token"),
     timestamp |-> Divide(Item(cam_info, "timestamp"), 1000000000),
     cam2ego |-> convert_quaternion_to_matrix(
                     Item(cam_info, "sensor2ego_rotation"),
                     Item(cam_info, "sensor2ego_translation")),
     lidar2cam |-> InverseRT(Item(cam_info, "sensor2lidar_rotation"),
                             Item(cam_info, "sensor2lidar_translation"))]
    @@ get_empty_img_info

\* instance j (counted from 1) before clear_instance_unused_keys
\* (lines 342-358)
argo2_instance(ori_info_dict, j) ==
    [bbox_3d |-> RowToList(ori_info_dict["gt_boxes"].v[j]),
     bbox_label |-> PyInt(bbox_label(ori_info_dict["gt_names"].v[j])),
     bbox_label_3d |-> PyInt(bbox_label(ori_info_dict["gt_names"].v[j])),
     velocity |-> RowToList(ori_info_dict["gt_velocity"].v[j]),
     num_lidar_pts |-> PyInt(ori_info_dict["num_lidar_pts"].v[j]),
     bbox_3d_isvalid |-> PyBool(ori_info_dict["valid_flag"].v[j])]
    @@ get_empty_instance

\* temp_data_info at line 360, before pruning, for the frame at position idx
argo2_frame(idx, ori_info_dict) ==
    LET sweeps == Item(ori_info_dict, "sweeps").v
        cams == Item(ori_info_dict, "cams").v
        annotations ==
            IF "gt_boxes" \in DOMAIN ori_info_dict
            THEN [instances |-> PyList(
                     [j \in 1..NumInstances(ori_info_dict) |->
                        PyDict(clear_instance_unused_keys(
                                   argo2_instance(ori_info_dict, j)))])]
            ELSE EmptyDict
    IN  annotations
        @@ [sample_idx |-> PyInt(idx),
            token |-> Item(ori_info_dict, "token"),
            ego2global |-> convert_quaternion_to_matrix(
                               Item(ori_info_dict, "ego2global_rotation"),
                               Item(ori_info_dict, "ego2global_translation")),
            lidar_points |-> PyDict(
               [num_pts_feats |-> Get(ori_info_dict, "num_features", PyInt(5)),
                lidar_path |-> PyPath(PathName(
                                  Item(ori_info_dict, "lidar_path").v)),
                lidar2ego |-> convert_quaternion_to_matrix(
                                  Item(ori_info_dict, "lidar2ego_rotation"),
                                  Item(ori_info_dict, "lidar2ego_translation"))]
               @@ get_empty_lidar_points),
            timestamp |-> Divide(Item(ori_info_dict, "timestamp"), 1000000000),
            scene_token |-> Item(ori_info_dict, "scene_token"),
            lidar_sweeps |-> PyList([s \in DOMAIN sweeps |->
                                PyDict(argo2_lidar_sweep(sweeps[s].v))]),
            images |-> PyDict([cam \in DOMAIN cams |->
                                PyDict(argo2_img_info(cams[cam].v))])]
        @@ get_empty_standard_data_info(argo2_camera_types)

(***************************************************************************)
(* The run: update_pkl_infos and the two drivers                           *)
(***************************************************************************)
LowerChar(c) ==
    CASE c = "A" -> "a" [] c = "B" -> "b" [] c = "C" -> "c" [] c = "D" -> "d"
      [] c = "E" -> "e" [] c = "F" -> "f" [] c = "G" -> "g" [] c = "H" -> "h"
      [] c = "I" -> "i" [] c = "J" -> "j" [] c = "K" -> "k" [] c = "L" -> "l"
      [] c = "M" -> "m" [] c = "N" -> "n" [] c = "O" -> "o" [] c = "P" -> "p"
      [] c = "Q" -> "q" [] c = "R" -> "r" [] c = "S" -> "s" [] c = "T" -> "t"
      [] c = "U" -> "u" [] c = "V" -> "v" [] c = "W" -> "w" [] c = "X" -> "x"
      [] c = "Y" -> "y" [] c = "Z" -> "z" [] OTHER -> c

\* str.lower()
Lower(str) == [j \in DOMAIN str |-> LowerChar(str[j])]

DatasetNames ==
    {<<"N", "u", "S", "c", "e", "n", "e", "s">>,
     <<"a", "r", "g", "o", "2">>,
     <<"k", "i", "t", "t", "i">>,
     <<"K", "I", "T", "T", "I">>,
     <<"a", "r", "g", "o">>}

\* mutant: the second test is missing, every other name runs the
\* Argoverse2 driver
Dispatch_ElseArgo2(name) ==
    IF Lower(name) = <<"n", "u", "s", "c", "e", "n", "e", "s">> THEN "nuscenes"
    ELSE "argo2"

\* the branch update_pkl_infos takes
Dispatch(name) ==
    IF Lower(name) = <<"n", "u", "s", "c", "e", "n", "e", "s">> THEN "nuscenes"
    ELSE IF Lower(name) = <<"a", "r", "g", "o", "2">> THEN "argo2"
    ELSE "NotImplementedError"

\* mutant: the loop stops one element early
LoopExhausted_OneEarly(pos, loaded) == pos >= Len(loaded.infos) - 1

\* the for loop has consumed every element of data_list['infos']
LoopExhausted(pos, loaded) == pos >= Len(loaded.infos)

\* mutant: the taxonomy enumerated from 1
Categories_FromOne(ignored) ==
    [k \in Range(METAINFO_classes) \cup ignored |->
        IF k \in ignored THEN -1 ELSE ClassIndex(k) + 1]

\* metainfo['categories'] (lines 513-516)
Categories(ignored) ==
    [k \in Range(METAINFO_classes) \cup ignored |->
        IF k \in ignored THEN -1 ELSE ClassIndex(k)]

\* mutant: the template is built once and every call returns that object
NewRecord_Shared(allocated) == 1

\* get_empty_standard_data_info builds its dicts and lists anew on every
\* call: the object it returns, with every container it holds, is distinct
\* from every object allocated before
NewRecord(allocated) == allocated + 1

\* an assignment made through one reference to an object is seen through
\* every reference to that object
WriteThrough(list, ids, id, value) ==
    [k \in DOMAIN list |-> IF ids[k] = id THEN value ELSE list[k]]

Init ==
    /\ pc = "start"
    /\ dataset \in DatasetNames
    /\ pkl_path = <<"data", "infos_val.pkl">>
    /\ out_dir = <<"converted_annotations">>
    /\ data_list = EmptyDict /\ nusc = PyNone /\ it = 0 /\ i = 0
    /\ temp_data_info = EmptyDict /\ out_path = <<>> /\ converted_list = <<>>
    /\ ignore_class_name = ignore_class_name_before_loop
    /\ printed = PyNone /\ dumped = <<>>
    /\ io = <<>> /\ error = "none"
    /\ heap_next = 0 /\ temp_id = 0 /\ converted_ids = <<>>
    /\ prune_calls = <<>>
    /\ PruneIdle /\ GeoIdle /\ AbbrIdle /\ ModelIdle

Raise(exception) ==
    /\ error' = exception
    /\ pc' = "failed"

update_pkl_infos ==
    /\ pc = "start"
    /\ IF Dispatch(dataset) = "NotImplementedError"
       THEN Raise("NotImplementedError")
       ELSE pc' = Dispatch(dataset) \o "_load" /\ UNCHANGED error
    /\ UNCHANGED <<dataset, pkl_path, out_dir, data_list, nusc, it, i,
                   temp_data_info, out_path, converted_list,
                   ignore_class_name, printed, dumped, io>>
    /\ UNCHANGED heap_vars
    /\ UNCHANGED prune_vars
    /\ UNCHANGED pure_vars

\* lines 391-396: mmengine.load(pkl_path)
nuscenes_load ==
    /\ pc = "nuscenes_load"
    /\ data_list' \in Inputs(nuscenes_camera_types)
    /\ io' = Append(io, "read")
    /\ pc' = "nuscenes_sdk"
    /\ UNCHANGED <<dataset, pkl_path, out_dir, nusc, it, i, temp_data_info,
                   out_path, converted_list, ignore_class_name, printed,
                   dumped, error>>
    /\ UNCHANGED heap_vars
    /\ UNCHANGED prune_vars
    /\ UNCHANGED pure_vars

\* lines 402-408: NuScenes(...), converted_list = []
nuscenes_sdk ==
    /\ pc = "nuscenes_sdk"
    /\ nusc' = NuScenes(data_list.metadata.version)
    /\ io' = Append(io, "sdk")
    /\ converted_list' = <<>>
    /\ pc' = "nuscenes_loop"
    /\ UNCHANGED <<dataset, pkl_path, out_dir, data_list, it, i,
                   temp_data_info, out_path, ignore_class_name, printed,
                   dumped, error>>
    /\ UNCHANGED heap_vars
    /\ UNCHANGED prune_vars
    /\ UNCHANGED pure_vars

\* lines 409-504: the next frame is taken from the input and mapped
nuscenes_map_frame ==
    /\ pc = "nuscenes_loop"
    /\ ~LoopExhausted(it, data_list)
    /\ LET ori_info_dict == SrcFrame(data_list.infos[it + 1]) IN
        IF nuscenes_raises(ori_info_dict)
        THEN /\ Raise("KeyError")
             /\ UNCHANGED <<it, i, temp_data_info, ignore_class_name,
                            converted_list>>
             /\ UNCHANGED heap_vars
        ELSE /\ temp_data_info' =
                    nuscenes_frame(FrameIndex(it, i), ori_info_dict, nusc)
             /\ ignore_class_name' =
                    PySet(frame_ignore_class_name(ori_info_dict))
             /\ i' = IndexAfterFrame(FrameIndex(it, i), ori_info_dict)
             /\ it' = it + 1
             /\ pc' = "nuscenes_prune"
             /\ temp_id' = NewRecord(heap_next)
             /\ heap_next' = IF temp_id' > heap_next THEN temp_id'
                             ELSE heap_next
             /\ prune_calls' = IF temp_id' > Len(prune_calls)
                               THEN Append(prune_calls, 0) ELSE prune_calls
             /\ converted_list' = WriteThrough(converted_list, converted_ids,
                                               temp_id', temp_data_info')
             /\ UNCHANGED <<error, converted_ids>>
    /\ UNCHANGED <<dataset, pkl_path, out_dir, data_list, nusc, out_path,
                   printed, dumped, io>>
    /\ UNCHANGED prune_vars
    /\ UNCHANGED pure_vars

\* lines 505-506: prune the frame record and append it
nuscenes_prune_append ==
    /\ pc = "nuscenes_prune"
    /\ temp_data_info' = clear_data_info_unused_keys(temp_data_info).data_info
    /\ prune_calls' = [prune_calls EXCEPT ![temp_id] = @ + 1]
    /\ converted_list' =
          Append(WriteThrough(converted_list, converted_ids, temp_id,
                              temp_data_info'),
                 temp_data_info')
    /\ converted_ids' = Append(converted_ids, temp_id)
    /\ UNCHANGED <<heap_next, temp_id>>
    /\ pc' = "nuscenes_loop"
    /\ UNCHANGED <<dataset, pkl_path, out_dir, data_list, nusc, it, i,
                   out_path, ignore_class_name, printed, dumped, io, error>>
    /\ UNCHANGED prune_vars
    /\ UNCHANGED pure_vars

\* lines 507-510: out_path and the two prints; ignore_class_name is unbound
\* when the loop body never ran
nuscenes_out_path ==
    /\ pc = "nuscenes_loop"
    /\ LoopExhausted(it, data_list)
    /\ out_path' = PathJoin(out_dir, PathName(pkl_path))
    /\ IF ignore_class_name = Unbound
       THEN Raise("NameError") /\ UNCHANGED printed
       ELSE /\ printed' = ignore_class_name
            /\ pc' = "nuscenes_dump"
            /\ UNCHANGED error
    /\ UNCHANGED <<dataset, pkl_path, out_dir, data_list, nusc, it, i,
                   temp_data_info, converted_list, ignore_class_name, dumped,
                   io>>
    /\ UNCHANGED heap_vars
    /\ UNCHANGED prune_vars
    /\ UNCHANGED pure_vars

\* lines 512-524: the metadata header and mmengine.dump
nuscenes_dump ==
    /\ pc = "nuscenes_dump"
    /\ LET metainfo ==
            [categories |-> Categories(ignore_class_name.v),
             dataset |-> "nuscenes",
             version |-> data_list.metadata.version,
             info_version |-> "1.1"]
           converted_data_info ==
            [metainfo |-> metainfo, data_list |-> converted_list]
       IN  dumped' = Append(dumped, [path |-> out_path,
                                     obj |-> converted_data_info])
    /\ io' = Append(io, "write")
    /\ pc' = "done"
    /\ UNCHANGED <<dataset, pkl_path, out_dir, data_list, nusc, it, i,
                   temp_data_info, out_path, converted_list,
                   ignore_class_name, printed, error>>
    /\ UNCHANGED heap_vars
    /\ UNCHANGED prune_vars
    /\ UNCHANGED pure_vars

\* lines 257-269: mmengine.load(pkl_path), converted_list = []
argo2_load ==
    /\ pc = "argo2_load"
    /\ data_list' \in Inputs(argo2_camera_types)
    /\ io' = Append(io, "read")
    /\ converted_list' = <<>>
    /\ pc' = "argo2_loop"
    /\ UNCHANGED <<dataset, pkl_path, out_dir, nusc, it, i, temp_data_info,
                   out_path, ignore_class_name, printed, dumped, error>>
    /\ UNCHANGED heap_vars
    /\ UNCHANGED prune_vars
    /\ UNCHANGED pure_vars

\* lines 270-360: the next frame is taken from the input and mapped
argo2_map_frame ==
    /\ pc = "argo2_loop"
    /\ ~LoopExhausted(it, data_list)
    /\ LET ori_info_dict == SrcFrame(data_list.infos[it + 1]) IN
        IF argo2_raises(ori_info_dict)
        THEN /\ Raise("KeyError")
             /\ UNCHANGED <<it, i, temp_data_info, ignore_class_name,
                            converted_list>>
             /\ UNCHANGED heap_vars
        ELSE /\ temp_data_info' =
                    argo2_frame(FrameIndex(it, i), ori_info_dict)
             /\ ignore_class_name' =
                    PySet(frame_ignore_class_name(ori_info_dict))
             /\ i' = IndexAfterFrame(FrameIndex(it, i), ori_info_dict)
             /\ it' = it + 1
             /\ pc' = "argo2_prune"
             /\ temp_id' = NewRecord(heap_next)
             /\ heap_next' = IF temp_id' > heap_next THEN temp_id'
                             ELSE heap_next
             /\ prune_calls' = IF temp_id' > Len(prune_calls)
                               THEN Append(prune_calls, 0) ELSE prune_calls
             /\ converted_list' = WriteThrough(converted_list, converted_ids,
                                               temp_id', temp_data_info')
             /\ UNCHANGED <<error, converted_ids>>
    /\ UNCHANGED <<dataset, pkl_path, out_dir, data_list, nusc, out_path,
                   printed, dumped, io>>
    /\ UNCHANGED prune_vars
    /\ UNCHANGED pure_vars

\* lines 361-362: prune the frame record and append it
argo2_prune_append ==
    /\ pc = "argo2_prune"
    /\ temp_data_info' = clear_data_info_unused_keys(temp_data_info).data_info
    /\ prune_calls' = [prune_calls EXCEPT ![temp_id] = @ + 1]
    /\ converted_list' =
          Append(WriteThrough(converted_list, converted_ids, temp_id,
                              temp_data_info'),
                 temp_data_info')
    /\ converted_ids' = Append(converted_ids, temp_id)
    /\ UNCHANGED <<heap_next, temp_id>>
    /\ pc' = "argo2_loop"
    /\ UNCHANGED <<dataset, pkl_path, out_dir, data_list, nusc, it, i,
                   out_path, ignore_class_name, printed, dumped, io, error>>
    /\ UNCHANGED prune_vars
    /\ UNCHANGED pure_vars

\* lines 363-364: osp.join(out_dir, + pkl_name) applies unary plus to a str,
\* which raises TypeError; lines 365-380 are never reached
argo2_out_path ==
    /\ pc = "argo2_loop"
    /\ LoopExhausted(it, data_list)
    /\ Raise("TypeError")
    /\ UNCHANGED <<dataset, pkl_path, out_dir, data_list, nusc, it, i,
                   temp_data_info, out_path, converted_list,
                   ignore_class_name, printed, dumped, io>>
    /\ UNCHANGED heap_vars
    /\ UNCHANGED prune_vars
    /\ UNCHANGED pure_vars

Next ==
    \/ update_pkl_infos
    \/ nuscenes_load
    \/ nuscenes_sdk
    \/ nuscenes_map_frame
    \/ nuscenes_prune_append
    \/ nuscenes_out_path
    \/ nuscenes_dump
    \/ argo2_load
    \/ argo2_map_frame
    \/ argo2_prune_append
    \/ argo2_out_path

Spec == Init /\ [][Next]_vars

(***************************************************************************)
(* Properties of a converter run                                           *)
(***************************************************************************)
Driver == Dispatch(dataset)

\* the class names of source frame k whose instance got bbox_label -1 in
\* the output record of that frame
MinusOneNames(k) ==
    IF "instances" \in DOMAIN converted_list[k]
    THEN {data_list.infos[k].names[j] : j \in
            {j \in DOMAIN converted_list[k]["instances"].v :
                converted_list[k]["instances"].v[j].v["bbox_label"].v = -1}}
    ELSE {}

AllMinusOneNames == UNION {MinusOneNames(k) : k \in DOMAIN converted_list}

\* C1: the reported ignored-classes set, and the set of names that
\* metainfo['categories'] maps to -1, are exactly the names that received
\* bbox_label -1 in any frame of the run.
C1_IgnoredClassesOfAllFrames ==
    /\ printed # PyNone => printed.v = AllMinusOneNames
    /\ dumped # <<>> =>
          LET categories == dumped[1].obj.metainfo.categories IN
          {n \in DOMAIN categories : categories[n] = -1} = AllMinusOneNames

\* a frame description that stands for a complete source record of a driver
\* whose cameras are camera_types
ValidFrame(frame, camera_types) ==
    /\ frame.absent = {}
    /\ frame.cams = Range(camera_types)
    /\ \A s \in DOMAIN frame.sweeps : frame.sweeps[s].absent = {}

ValidInput ==
    /\ "infos" \in DOMAIN data_list
    /\ Len(data_list.infos) > 0
    /\ \A k \in DOMAIN data_list.infos :
          ValidFrame(data_list.infos[k],
                     IF Driver = "nuscenes" THEN nuscenes_camera_types
                     ELSE argo2_camera_types)

\* C2: for both drivers, a run over a valid non-empty input ends with
\* exactly one artifact {metainfo, data_list} written at out_dir joined with
\* the base name of pkl_path, and does not fail computing the output path.
C2_ValidRunWritesOneArtifact ==
    (pc \in {"done", "failed"} /\ ValidInput) =>
        /\ error = "none"
        /\ Len(dumped) = 1
        /\ dumped[1].path = out_dir \o <<pkl_path[Len(pkl_path)]>>
        /\ DOMAIN dumped[1].obj = {"metainfo", "data_list"}

\* no field of d, at any depth and in any record of a list, is None or an
\* empty container, the three annotation keys excepted
RECURSIVE NoNullField(_)
NoNullField(d) ==
    \A k \in DOMAIN d \ {"instances", "cam_sync_instances", "cam_instances"} :
        /\ d[k].t # "none"
        /\ d[k].t = "dict" => DOMAIN d[k].v # {} /\ NoNullField(d[k].v)
        /\ d[k].t = "list" =>
              /\ Len(d[k].v) > 0
              /\ "of" \notin DOMAIN d[k] =>
                    \A e \in Range(d[k].v) : e.t = "dict" => NoNullField(e.v)

\* C3: after the pruning pass no field anywhere in the record, the fields
\* of the records of lidar_sweeps included, is None or an empty container,
\* except instances, cam_sync_instances and cam_instances.
C3_NoNullAfterPruning ==
    \A k \in DOMAIN converted_list : NoNullField(converted_list[k])

IsBasename(path) == path.t = "path" /\ Len(path.v) <= 1

\* C6: the file paths of a canonical frame record are basenames: the
\* top-level lidar_path, every img_path, pts_semantic_mask_path and the
\* lidar_path of every entry of lidar_sweeps.
C6_PathsAreBasenames ==
    \A k \in DOMAIN converted_list :
        LET r == converted_list[k] IN
        /\ IsBasename(r["lidar_points"].v["lidar_path"])
        /\ "images" \in DOMAIN r =>
              \A cam \in DOMAIN r["images"].v :
                  IsBasename(r["images"].v[cam].v["img_path"])
        /\ "pts_semantic_mask_path" \in DOMAIN r =>
              IsBasename(r["pts_semantic_mask_path"])
        /\ "lidar_sweeps" \in DOMAIN r =>
              \A s \in DOMAIN r["lidar_sweeps"].v :
                  IsBasename(r["lidar_sweeps"].v[s].v["lidar_points"].v["lidar_path"])

\* the keys of the filled record and of its image, sweep and instance
\* records lie within the templates' keys and the given extra keys
FilledKeysWithin(camera_types, frame_extra, image_extra, sweep_extra,
                 sweep_points_extra, instance_extra) ==
    /\ DOMAIN temp_data_info \subseteq
          DOMAIN get_empty_standard_data_info(camera_types) \cup frame_extra
    /\ \A cam \in DOMAIN temp_data_info["images"].v :
          DOMAIN temp_data_info["images"].v[cam].v \subseteq
              DOMAIN get_empty_img_info \cup image_extra
    /\ \A s \in DOMAIN temp_data_info["lidar_sweeps"].v :
          LET sweep == temp_data_info["lidar_sweeps"].v[s].v IN
          /\ DOMAIN sweep \subseteq DOMAIN get_single_lidar_sweep \cup sweep_extra
          /\ DOMAIN sweep["lidar_points"].v \subseteq
                DOMAIN get_empty_lidar_points \cup sweep_points_extra
    /\ \A j \in DOMAIN temp_data_info["instances"].v :
          DOMAIN temp_data_info["instances"].v[j].v \subseteq
              DOMAIN get_empty_instance \cup instance_extra

\* C7 as stated: between template construction and pruning, the frame
\* record, each image record, each lidar-sweep record and each instance
\* record hold no key that is absent from their template.
C7_OnlyTemplateKeys ==
    /\ pc = "nuscenes_prune" =>
          FilledKeysWithin(nuscenes_camera_types, {}, {}, {}, {}, {})
    /\ pc = "argo2_prune" =>
          FilledKeysWithin(argo2_camera_types, {}, {}, {}, {}, {})

\* C7 (amended): between template construction and pruning, the only keys
\* the records hold beyond their template are cam_instances in a nuScenes
\* frame record; sample_data_token, timestamp and lidar2cam in an image
\* record; sample_data_token in a lidar-sweep record, whose lidar_points
\* holds lidar2sensor (nuScenes) or lidar2ego_s (Argoverse2); velocity in an
\* instance record.
C7_TemplateKeysAndKnownExtras ==
    /\ pc = "nuscenes_prune" =>
          FilledKeysWithin(nuscenes_camera_types, {"cam_instances"},
                           {"sample_data_token", "timestamp", "lidar2cam"},
                           {"sample_data_token"}, {"lidar2sensor"},
                           {"velocity"})
    /\ pc = "argo2_prune" =>
          FilledKeysWithin(argo2_camera_types, {},
                           {"sample_data_token", "timestamp", "lidar2cam"},
                           {"sample_data_token"}, {"lidar2ego_s"},
                           {"velocity"})

\* C7 witness: a filled, not yet pruned nuScenes record with an image
\* record, a lidar sweep, an instance and cam_instances.
C7_Witness ==
    /\ pc = "nuscenes_prune"
    /\ "cam_instances" \in DOMAIN temp_data_info
    /\ Len(temp_data_info["lidar_sweeps"].v) >= 1
    /\ Len(temp_data_info["instances"].v) >= 1
    /\ DOMAIN temp_data_info["images"].v # {}

\* C8 as stated: a frame is converted only if every field the driver reads,
\* num_features, gt_boxes and pts_semantic_mask_path included, is present
\* in its source record.
C8_EveryReadFieldIsFatal ==
    \A k \in DOMAIN converted_list :
        data_list.infos[k].absent \cap
            (IF Driver = "nuscenes" THEN FrameKeys
             ELSE FrameKeys \ {"num_radar_pts", "pts_semantic_mask_path"}) = {}

\* C8 (amended): a frame is converted only if every field the driver reads
\* by subscript is present: the ten unconditional fields, every field of
\* every sweep, the per-instance fields when gt_boxes is present with at
\* least one row, and for nuScenes the six cameras when gt_boxes is present.
\* Three fields are optional: an absent num_features is imputed as 5, an
\* absent gt_boxes leaves instances empty, an absent pts_semantic_mask_path
\* leaves the key out.
C8_SubscriptedFieldsAreFatal ==
    \A k \in DOMAIN converted_list :
        LET frame == data_list.infos[k]
            r == converted_list[k]
        IN  /\ frame.absent \cap
                  {"token", "ego2global_rotation", "ego2global_translation",
                   "lidar_path", "lidar2ego_rotation", "lidar2ego_translation",
                   "timestamp", "scene_token", "sweeps", "cams"} = {}
            /\ \A s \in DOMAIN frame.sweeps : frame.sweeps[s].absent = {}
            /\ ("gt_boxes" \notin frame.absent /\ Len(frame.names) > 0) =>
                  frame.absent \cap
                      ({"gt_names", "gt_velocity", "num_lidar_pts", "valid_flag"}
                       \cup (IF Driver = "nuscenes" THEN {"num_radar_pts"}
                             ELSE {})) = {}
            /\ (Driver = "nuscenes" /\ "gt_boxes" \notin frame.absent) =>
                  Range(nuscenes_camera_types) \subseteq frame.cams
            /\ "num_features" \in frame.absent =>
                  r["lidar_points"].v["num_pts_feats"] = PyInt(5)
            /\ "gt_boxes" \in frame.absent => r["instances"] = PyList(<<>>)
            /\ "pts_semantic_mask_path" \in frame.absent =>
                  "pts_semantic_mask_path" \notin DOMAIN r

\* C8 witness: the run has failed with KeyError on a second frame whose
\* source record lacks scene_token.
C8_Witness ==
    /\ error = "KeyError"
    /\ Len(converted_list) = 1
    /\ data_list.infos[2].absent = {"scene_token"}

\* C9: the artifact is written only after every frame of the input has been
\* mapped and pruned; a run that failed has written nothing.
C9_NoPartialOutput ==
    /\ dumped # <<>> =>
          /\ error = "none"
          /\ it = Len(data_list.infos)
          /\ Len(dumped[1].obj.data_list) = Len(data_list.infos)
    /\ error # "none" => dumped = <<>> /\ "write" \notin Range(io)

\* C9 witness: mapping failed on the second frame after the first frame was
\* mapped, pruned and appended; nothing has been written.
C9_Witness ==
    /\ error = "KeyError"
    /\ Len(converted_list) = 1
    /\ it = 1
    /\ dumped = <<>>

TaxonomyPosition ==
    [car |-> 0, truck |-> 1, trailer |-> 2, bus |-> 3,
     construction_vehicle |-> 4, bicycle |-> 5, motorcycle |-> 6,
     pedestrian |-> 7, traffic_cone |-> 8, barrier |-> 9]

ExpectedLabel(name) ==
    IF name \in DOMAIN TaxonomyPosition THEN TaxonomyPosition[name] ELSE -1

\* the class names of the boxes of source frame k: the rows of gt_boxes
SourceNames(k) ==
    IF "gt_boxes" \in data_list.infos[k].absent THEN <<>>
    ELSE data_list.infos[k].names

C12_OneInstancePerRow ==
    \A k \in DOMAIN converted_list :
        LET src == SrcFrame(data_list.infos[k])
            r == converted_list[k]
        IN  /\ "instances" \in DOMAIN r
            /\ r["instances"].t = "list"
            /\ IF "gt_boxes" \in DOMAIN src
               THEN /\ Len(r["instances"].v) = Len(src["gt_boxes"].v)
                    /\ \A j \in DOMAIN src["gt_boxes"].v :
                          /\ r["instances"].v[j].v["bbox_3d"].t = "list"
                          /\ r["instances"].v[j].v["bbox_3d"].v =
                                src["gt_boxes"].v[j]
               ELSE r["instances"].v = <<>>

\* C12 witness: a converted frame whose source has two boxes; the second
\* instance carries the second row.
C12_Witness ==
    /\ Len(converted_list) >= 1
    /\ Len(data_list.infos[1].names) = 2
    /\ converted_list[1]["instances"].v[2].v["bbox_3d"].v =
          <<2, 0, 0, 1, 1, 1, 0>>

\* has the frame loop of the run ended by exhausting the input?
LoopDone ==
    \/ pc \in {"nuscenes_dump", "done"}
    \/ error \in {"NameError", "TypeError"}

\* C13: frames are converted in source order, one record per frame: record
\* k of the output carries sample_idx k (counted from 0) and the instances
\* of source frame k, however many instances any frame has; when the loop
\* has ended, and in the written artifact, there are as many records as
\* source frames.
C13_OneRecordPerFrameInOrder ==
    /\ pc \notin {"start", "idle"} /\ data_list # EmptyDict =>
          /\ Len(converted_list) <= Len(data_list.infos)
          /\ Len(converted_list) \in {it, it - 1}
          /\ \A k \in DOMAIN converted_list :
                /\ converted_list[k]["sample_idx"] = PyInt(k - 1)
                /\ Len(converted_list[k]["instances"].v) = Len(SourceNames(k))
          /\ LoopDone => Len(converted_list) = Len(data_list.infos)
    /\ dumped # <<>> =>
          /\ Len(dumped[1].obj.data_list) = Len(data_list.infos)
          /\ \A k \in DOMAIN dumped[1].obj.data_list :
                dumped[1].obj.data_list[k]["sample_idx"] = PyInt(k - 1)

\* C13 witness: an artifact of two records is written; both source frames
\* have two boxes, so the inner loop left i = 1 after each frame.
C13_Witness ==
    /\ dumped # <<>>
    /\ Len(dumped[1].obj.data_list) = 2
    /\ Len(data_list.infos[1].names) = 2
    /\ Len(data_list.infos[2].names) = 2
    /\ i = 1
    /\ dumped[1].obj.data_list[2]["sample_idx"] = PyInt(1)

\* the constant a driver divides timestamps by
TimestampDivisor == IF Driver = "nuscenes" THEN 1000000 ELSE 1000000000

\* value is the source integer divided once by the driver's constant
DividedOnce(value, source) ==
    /\ source.t = "int"
    /\ value = [t |-> "float", v |-> <<source.v, TimestampDivisor>>]

\* C14: in every converted frame the top-level timestamp, the timestamp of
\* every lidar sweep and the timestamp of every camera image are the source
\* value divided exactly once by 1e6 (nuScenes) or 1e9 (Argoverse2); every
\* source sweep and camera has its record.
C14_TimestampsDividedOnce ==
    \A k \in DOMAIN converted_list :
        LET src == SrcFrame(data_list.infos[k])
            r == converted_list[k]
        IN  /\ DividedOnce(r["timestamp"], src["timestamp"])
            /\ \A s \in DOMAIN src["sweeps"].v :
                  /\ "lidar_sweeps" \in DOMAIN r
                  /\ s \in DOMAIN r["lidar_sweeps"].v
                  /\ DividedOnce(r["lidar_sweeps"].v[s].v["timestamp"],
                                 src["sweeps"].v[s].v["timestamp"])
            /\ \A cam \in DOMAIN src["cams"].v :
                  /\ "images" \in DOMAIN r
                  /\ cam \in DOMAIN r["images"].v
                  /\ DividedOnce(r["images"].v[cam].v["timestamp"],
                                 src["cams"].v[cam].v["timestamp"])

\* C14 witness: the Argoverse2 driver has converted a frame with a lidar
\* sweep and seven cameras.
C14_Witness ==
    /\ Driver = "argo2"
    /\ Len(converted_list) >= 1
    /\ "lidar_sweeps" \in DOMAIN converted_list[1]
    /\ converted_list[1]["lidar_sweeps"].v[1].v["timestamp"] =
          [t |-> "float", v |-> <<900000, 1000000000>>]
    /\ DOMAIN converted_list[1]["images"].v = Range(argo2_camera_types)

\* the frame records appended so far are distinct objects, and the record
\* being built is none of them
RecordsDistinct ==
    /\ \A j, k \in DOMAIN converted_ids :
          converted_ids[j] = converted_ids[k] => j = k
    /\ pc \in {"nuscenes_prune", "argo2_prune"} =>
          \A k \in DOMAIN converted_ids : converted_ids[k] # temp_id

\* every appended record has had exactly one top-level pruning call
PrunedOnce ==
    \A k \in DOMAIN converted_ids : prune_calls[converted_ids[k]] = 1

\* a step leaves every record already in the output sequence as it was
AppendedRecordsFrozen ==
    \A k \in DOMAIN converted_list :
        /\ k \in DOMAIN converted_list'
        /\ converted_list'[k] = converted_list[k]

\* C15: each record is a fresh object sharing nothing with the record of
\* another frame, is pruned exactly once, and once appended it is changed by
\* no later step: not by the conversion of later frames, not by the metadata
\* assembly, and the serialized data_list holds the records as appended.
C15_RecordsFreshPrunedOnceFrozen ==
    /\ [](/\ RecordsDistinct
          /\ PrunedOnce
          /\ Len(converted_ids) = Len(converted_list)
          /\ dumped # <<>> => dumped[1].obj.data_list = converted_list)
    /\ [][AppendedRecordsFrozen]_vars

\* C15 witness: two frames were converted into two distinct record objects
\* and the list was serialized.
C15_Witness ==
    /\ dumped # <<>>
    /\ Len(converted_list) = 2
    /\ converted_ids = <<1, 2>>
    /\ prune_calls = <<1, 1>>
    /\ converted_list[1] # converted_list[2]

\* C16: the header of every written artifact has exactly the keys
\* categories, dataset, version and info_version; categories maps each of
\* the ten taxonomy names to its position 0..9, dataset is the driver's name,
\* version is the metadata version of the input artifact, and info_version
\* is '1.1'.
C16_MetadataHeader ==
    \A d \in DOMAIN dumped :
        LET metainfo == dumped[d].obj.metainfo IN
        /\ DOMAIN metainfo =
              {"categories", "dataset", "version", "info_version"}
        /\ \A name \in DOMAIN TaxonomyPosition :
              /\ name \in DOMAIN metainfo.categories
              /\ metainfo.categories[name] = TaxonomyPosition[name]
        /\ metainfo.dataset = Driver
        /\ metainfo.version = data_list.metadata.version
        /\ metainfo.info_version = "1.1"

\* C16 witness: an artifact converted from an input of version v1.0-trainval
\* was written, with a header that also lists an ignored class.
C16_Witness ==
    /\ dumped # <<>>
    /\ data_list.metadata.version = "v1.0-trainval"
    /\ dumped[1].obj.metainfo.version = "v1.0-trainval"
    /\ dumped[1].obj.metainfo.categories["barrier"] = 9
    /\ dumped[1].obj.metainfo.categories["alien_ship"] = -1

\* C17: every instance of every converted frame, of either driver, has the
\* keys bbox_label and bbox_label_3d after clear_instance_unused_keys, and
\* the two are the same integer: the taxonomy index, or -1 for an unmapped
\* class.
C17_Label3dEqualsLabel ==
    \A k \in DOMAIN converted_list :
        "instances" \in DOMAIN converted_list[k] =>
            \A j \in DOMAIN converted_list[k]["instances"].v :
                LET instance == converted_list[k]["instances"].v[j].v IN
                /\ {"bbox_label", "bbox_label_3d"} \subseteq DOMAIN instance
                /\ instance["bbox_label_3d"] = instance["bbox_label"]
                /\ instance["bbox_label"].t = "int"

\* C17 witness: a converted frame whose first instance is a car (label 0)
\* and whose second is of an unmapped class (label -1).
C17_Witness ==
    /\ Len(converted_list) >= 1
    /\ Len(converted_list[1]["instances"].v) = 2
    /\ converted_list[1]["instances"].v[1].v["bbox_label_3d"] = PyInt(0)
    /\ converted_list[1]["instances"].v[2].v["bbox_label_3d"] = PyInt(-1)
    /\ converted_list[1]["instances"].v[2].v["bbox_label"] = PyInt(-1)

(***************************************************************************)
(* The extrinsic inversion on its own (lines 466-472, 330-336)             *)
(***************************************************************************)
\* the 3x3 matrices over {-1, 0, 1}
UnitMatrices == [1..3 -> [1..3 -> {-1, 0, 1}]]

Det3(R) ==
    R[1][1] * (R[2][2] * R[3][3] - R[2][3] * R[3][2])
    - R[1][2] * (R[2][1] * R[3][3] - R[2][3] * R[3][1])
    + R[1][3] * (R[2][1] * R[3][2] - R[2][2] * R[3][1])

\* R^T R = I
Orthonormal(R) ==
    \A r, c \in 1..3 :
        R[1][r] * R[1][c] + R[2][r] * R[2][c] + R[3][r] * R[3][c] =
            (IF r = c THEN 1 ELSE 0)

\* the rotation matrices among them: the 24 rotations of the cube
Rotations == {R \in UnitMatrices : Orthonormal(R) /\ Det3(R) = 1}

\* translation components: small ones, and ones that need more than 24
\* significant bits (a tie rounding down, a tie rounding up)
TranslationValues == {-3, 0, 16777217, 16777219}

Translations == [1..3 -> TranslationValues]

InitInverse ==
    /\ rot \in {PyArray(R) : R \in Rotations}
    /\ trans \in {PyArray(t) : t \in Translations}
    /\ lidar2sensor = <<>>
    /\ ConvIdle /\ PruneIdle /\ AbbrIdle /\ ModelIdle

\* lines 466-472: the lidar2cam list of one camera
store_lidar2cam ==
    /\ lidar2sensor = <<>>
    /\ lidar2sensor' = InverseRT(rot, trans)
    /\ UNCHANGED <<rot, trans>>
    /\ UNCHANGED <<conv_vars, prune_vars, abbr_vars, model_vars>>

NextInverse == store_lidar2cam

SpecInverse == InitInverse /\ [][NextInverse]_vars

\* the source camera-to-lidar transform [[R, t], [0, 0, 0, 1]]
Sensor2Lidar ==
    [r \in 1..4 |-> [c \in 1..4 |->
        IF r <= 3 /\ c <= 3 THEN rot.v[r][c]
        ELSE IF r <= 3 THEN trans.v[r]
        ELSE IF c = 4 THEN 1 ELSE 0]]

\* the stored matrix multiplied by the source transform
RoundTrip ==
    [r \in 1..4 |-> [c \in 1..4 |->
        lidar2sensor.v[r][1] * Sensor2Lidar[1][c]
        + lidar2sensor.v[r][2] * Sensor2Lidar[2][c]
        + lidar2sensor.v[r][3] * Sensor2Lidar[3][c]
        + lidar2sensor.v[r][4] * Sensor2Lidar[4][c]]]

Identity4 == [r \in 1..4 |-> [c \in 1..4 |-> IF r = c THEN 1 ELSE 0]]

\* component r of R^T t
RotatedTranslation(r) ==
    rot.v[1][r] * trans.v[1] + rot.v[2][r] * trans.v[2]
    + rot.v[3][r] * trans.v[3]

\* C18 as stated: for every rotation R and every translation t the stored
\* lidar2cam matrix multiplied by [[R, t], [0, 0, 0, 1]] is the 4x4 identity.
C18_RoundTripIsIdentity ==
    lidar2sensor # <<>> => RoundTrip = Identity4

\* C18 amended: the stored matrix is [[R^T, -R^T t], [0, 0, 0, 1]] rounded to
\* float32. The rotation block and the last row of the product with
\* [[R, t], [0, 0, 0, 1]] are those of the identity; an entry of its
\* translation column is zero when that component of -R^T t is a float32
\* value, and otherwise is the rounding error, at most 2^-24 of the
\* magnitude of that component.
C18_RoundTripIsIdentityUpToFloat32 ==
    lidar2sensor # <<>> =>
        /\ \A r \in 1..4 : \A c \in 1..3 : RoundTrip[r][c] = Identity4[r][c]
        /\ RoundTrip[4][4] = 1
        /\ \A r \in 1..3 :
              /\ lidar2sensor.v[r][4] = Float32(0 - RotatedTranslation(r))
              /\ Float32(RotatedTranslation(r)) = RotatedTranslation(r) =>
                    RoundTrip[r][4] = 0
              /\ Abs(RoundTrip[r][4]) * (2 ^ Float32Precision) <=
                    Abs(RotatedTranslation(r))

\* C18 witness: a quarter turn about the z axis with a translation whose
\* third component is not a float32 value; the stored component is rounded.
C18_Witness ==
    /\ lidar2sensor # <<>>
    /\ rot = PyArray(Rz90)
    /\ trans = PyArray(<<-3, 0, 16777219>>)
    /\ lidar2sensor.v[1][4] = 0
    /\ lidar2sensor.v[2][4] = -3
    /\ lidar2sensor.v[3][4] = -16777220
    /\ RoundTrip[3][4] = -1

(***************************************************************************)
(* infer_abbr (cnn_bricks/norm.py, lines 24-70)                            *)
(***************************************************************************)
\* sub in str, for sequences of characters
Contains(sub, str) ==
    \E k \in 0..(Len(str) - Len(sub)) : SubSeq(str, k + 1, k + Len(sub)) = sub

\* the norm classes infer_abbr tests with issubclass
NormBases == {"_InstanceNorm", "_BatchNorm", "GroupNorm", "LayerNorm"}

\* a class: the attributes hasattr finds, the norm classes in its MRO, and
\* its __name__
Class(attrs, mro, name) ==
    [is_class |-> TRUE, attrs |-> attrs, mro |-> mro, name |-> name]

\* an object that is no class
Instance == [is_class |-> FALSE, attrs |-> EmptyDict, mro |-> {},
             name |-> <<>>]

ClassAttrs ==
    {EmptyDict, [_abbr_ |-> PyStr("custom")], [_abbr_ |-> PyStr("bn")],
     [_abbr_ |-> PyNone]}

ClassNames_Norm ==
    {<<"M", "y", "N", "o", "r", "m">>,
     <<"B", "A", "T", "C", "H", "n">>,
     <<"G", "r", "o", "u", "p", "L", "a", "y", "e", "r">>,
     <<"x", "L", "a", "y", "e", "r">>,
     <<"I", "n", "s", "t", "a", "n", "c", "e", "B", "a", "t", "c", "h">>,
     <<"I", "n", "s", "t", "a", "n", "c", "e">>,
     <<"B", "a", "t", "c">>}

ClassTypes ==
    {Class(attrs, mro, name) :
        attrs \in ClassAttrs, mro \in SUBSET NormBases,
        name \in ClassNames_Norm}
    \cup {Instance}

\* what a call returns or raises
Returned(value) == [raised |-> "none", value |-> value]
Raised(exception) == [raised |-> exception, value |-> PyNone]

\* lines 24-70
infer_abbr(cls) ==
    IF ~cls.is_class THEN Raised("TypeError")
    ELSE IF "_abbr_" \in DOMAIN cls.attrs THEN Returned(cls.attrs["_abbr_"])
    ELSE IF "_InstanceNorm" \in cls.mro THEN Returned(PyStr("in"))
    ELSE IF "_BatchNorm" \in cls.mro THEN Returned(PyStr("bn"))
    ELSE IF "GroupNorm" \in cls.mro THEN Returned(PyStr("gn"))
    ELSE IF "LayerNorm" \in cls.mro THEN Returned(PyStr("ln"))
    ELSE LET class_name == Lower(cls.name) IN
         IF Contains(<<"b", "a", "t", "c", "h">>, class_name)
         THEN Returned(PyStr("bn"))
         ELSE IF Contains(<<"g", "r", "o", "u", "p">>, class_name)
         THEN Returned(PyStr("gn"))
         ELSE IF Contains(<<"l", "a", "y", "e", "r">>, class_name)
         THEN Returned(PyStr("ln"))
         ELSE IF Contains(<<"i", "n", "s", "t", "a", "n", "c", "e">>,
                          class_name)
         THEN Returned(PyStr("in"))
         ELSE Returned(PyStr("norm_layer"))

InitAbbr ==
    /\ class_type \in ClassTypes
    /\ abbr = <<>>
    /\ ConvIdle /\ PruneIdle /\ GeoIdle /\ ModelIdle

call_infer_abbr ==
    /\ abbr = <<>>
    /\ abbr' = infer_abbr(class_type)
    /\ UNCHANGED class_type
    /\ UNCHANGED <<conv_vars, prune_vars, geo_vars, model_vars>>

NextAbbr == call_infer_abbr

SpecAbbr == InitAbbr /\ [][NextAbbr]_vars

\* rule 1 applies to the class
HasAbbr(cls) == "_abbr_" \in DOMAIN cls.attrs

\* the lower-cased name of the class holds one of the four words
NameHasWord(cls) ==
    \E word \in {<<"b", "a", "t", "c", "h">>, <<"g", "r", "o", "u", "p">>,
                 <<"l", "a", "y", "e", "r">>,
                 <<"i", "n", "s", "t", "a", "n", "c", "e">>} :
        Contains(word, Lower(cls.name))

\* the abbreviation of the first norm class, in the order instance, batch,
\* group, layer, that the class derives from
AbbrOfBase(cls) ==
    IF "_InstanceNorm" \in cls.mro THEN "in"
    ELSE IF "_BatchNorm" \in cls.mro THEN "bn"
    ELSE IF "GroupNorm" \in cls.mro THEN "gn" ELSE "ln"

\* the abbreviation of the first word, in the order batch, group, layer,
\* instance, that the lower-cased name holds
AbbrOfName(cls) ==
    IF Contains(<<"b", "a", "t", "c", "h">>, Lower(cls.name)) THEN "bn"
    ELSE IF Contains(<<"g", "r", "o", "u", "p">>, Lower(cls.name)) THEN "gn"
    ELSE IF Contains(<<"l", "a", "y", "e", "r">>, Lower(cls.name)) THEN "ln"
    ELSE "in"

\* C19 as stated: for a class, infer_abbr returns the attribute _abbr_ if the
\* class has it; otherwise 'in', 'bn', 'gn' or 'ln' for a subclass of
\* instance norm, batch norm, GroupNorm or LayerNorm; otherwise 'bn', 'gn',
\* 'ln' or 'in' for a lower-cased name holding 'batch', 'group', 'layer' or
\* 'instance'; otherwise "norm".
C19_RulesInOrder ==
    (abbr # <<>> /\ class_type.is_class) =>
        /\ abbr.raised = "none"
        /\ abbr.value =
              IF HasAbbr(class_type) THEN class_type.attrs["_abbr_"]
              ELSE IF class_type.mro # {} THEN PyStr(AbbrOfBase(class_type))
              ELSE IF NameHasWord(class_type)
              THEN PyStr(AbbrOfName(class_type))
              ELSE PyStr("norm")

\* the 2D boxes the SDK projects for camera cam of source frame k
ProjectedBoxes(k, cam) ==
    get_nuscenes_2d_boxes(
        nusc, SrcFrame(data_list.infos[k])["cams"].v[cam].v["sample_data_token"],
        <<"", "1", "2", "3", "4">>)

\* C20: the pruned record of a nuScenes frame whose source has gt_boxes holds
\* cam_instances, a mapping whose keys are exactly the six nuScenes cameras,
\* each to the list projected for that camera's sample_data_token with
\* visibilities '', '1', '2', '3', '4', empty lists included; the record of a
\* nuScenes frame without gt_boxes and of every Argoverse2 frame has no key
\* cam_instances.
C20_CamInstancesOnlyNuscenesWithBoxes ==
    \A k \in DOMAIN converted_list :
        IF Driver = "nuscenes"
           /\ "gt_boxes" \in DOMAIN SrcFrame(data_list.infos[k])
        THEN /\ "cam_instances" \in DOMAIN converted_list[k]
             /\ converted_list[k]["cam_instances"].t = "dict"
             /\ DOMAIN converted_list[k]["cam_instances"].v =
                   {"CAM_FRONT", "CAM_FRONT_RIGHT", "CAM_FRONT_LEFT",
                    "CAM_BACK", "CAM_BACK_LEFT", "CAM_BACK_RIGHT"}
             /\ \A cam \in DOMAIN converted_list[k]["cam_instances"].v :
                   converted_list[k]["cam_instances"].v[cam] =
                       ProjectedBoxes(k, cam)
        ELSE "cam_instances" \notin DOMAIN converted_list[k]

\* C20 witness: the nuScenes driver has converted a frame with gt_boxes whose
\* camera CAM_BACK shows no box and whose camera CAM_FRONT shows one.
C20_Witness ==
    /\ Driver = "nuscenes"
    /\ Len(converted_list) >= 1
    /\ "gt_boxes" \in DOMAIN SrcFrame(data_list.infos[1])
    /\ converted_list[1]["cam_instances"].v["CAM_BACK"] = PyList(<<>>)
    /\ Len(converted_list[1]["cam_instances"].v["CAM_FRONT"].v) = 1

\* result is what the call on mapping d returned: its flag is True exactly
\* when no key is left, and every mapping-valued field of d outside exempt
\* is absent from the result exactly when the call on it returns True and
\* is otherwise present as the mapping that call returns; the same holds of
\* the calls on those fields
RECURSIVE PruneContract(_, _, _)
PruneContract(d, result, exempt) ==
    /\ result.empty_flag <=> (DOMAIN result.data_info = {})
    /\ \A k \in DOMAIN d :
          (d[k].t = "dict" /\ k \notin exempt) =>
              LET sub == clear_data_info_unused_keys(d[k].v) IN
              /\ (k \notin DOMAIN result.data_info) <=> sub.empty_flag
              /\ k \in DOMAIN result.data_info =>
                    result.data_info[k] = PyDict(sub.data_info)
              /\ PruneContract(d[k].v, sub, exempt)

\* C21 as stated: the empty flag is True if and only if the returned mapping
\* has no keys left, and every nested mapping-valued field is deleted by the
\* parent call exactly when the call on it returns True and is kept in
\* pruned form otherwise.
C21_FlagAndNestedDeletion ==
    ppc \in {"once", "twice"} => PruneContract(rec, once, {})

\* C21 amended: the empty flag is True if and only if the returned mapping
\* has no keys left; a mapping-valued field under a key other than
\* instances, cam_sync_instances and cam_instances is deleted exactly when
\* the call on it returns True and is kept in pruned form otherwise; under
\* those three keys a mapping is kept as it is, whatever a call on it would
\* return.
C21_FlagAndNestedDeletionExceptAnnotations ==
    ppc \in {"once", "twice"} =>
        /\ PruneContract(rec, once,
                         {"instances", "cam_sync_instances", "cam_instances"})
        /\ \A k \in DOMAIN rec \cap
                    {"instances", "cam_sync_instances", "cam_instances"} :
              k \in DOMAIN once.data_info /\ once.data_info[k] = rec[k]

\* C21 witness: a pruned record whose nested mapping under radar_points lost
\* one of its two fields and was kept, so the flag is False.
C21_Witness ==
    /\ ppc = "once"
    /\ "radar_points" \in DOMAIN rec
    /\ rec["radar_points"] =
          PyDict(("token" :> PyNone) @@ ("radar_points" :> PyInt(1)))
    /\ once.data_info["radar_points"] = PyDict(("radar_points" :> PyInt(1)))
    /\ ~once.empty_flag

\* the input artifact has been loaded and its infos sequence has no frame
LoadedNoFrames ==
    /\ "infos" \in DOMAIN data_list
    /\ Len(data_list.infos) = 0

\* C22: a run of either driver on an input whose infos sequence has zero
\* frames never reaches the write step: it ends with an error raised after
\* the loop (NameError on the unbound ignore_class_name in the nuScenes
\* driver, TypeError at the path join in the Argoverse2 driver), and no
\* artifact with an empty data_list is ever written.
C22_NoFramesAbortsBeforeWrite ==
    /\ LoadedNoFrames =>
          /\ pc \in {"nuscenes_sdk", "nuscenes_loop", "argo2_loop", "failed"}
          /\ dumped = <<>> /\ "write" \notin Range(io)
          /\ pc = "failed" =>
                error = (IF Driver = "nuscenes" THEN "NameError"
                         ELSE "TypeError")
    /\ \A d \in DOMAIN dumped : Len(dumped[d].obj.data_list) > 0

\* C22 witness: the nuScenes driver has loaded an input without frames,
\* built the SDK handle, left the loop at once and failed on the unbound
\* name, having written nothing.
C22_Witness ==
    /\ LoadedNoFrames
    /\ Driver = "nuscenes"
    /\ pc = "failed" /\ error = "NameError"
    /\ io = <<"read", "sdk">>
    /\ dumped = <<>>

(***************************************************************************)
(* BaseModel (base_model.py): the hooks the trainer calls on one model     *)
(***************************************************************************)
ConfigKeys == {"eval_waymo", "eval_nuscenes"}

\* self.config: each flag absent, False or True
Configs == UNION {[keys -> BOOLEAN] : keys \in SUBSET ConfigKeys}

\* the hooks completed so far that ended a validation epoch
EpochsDone(log) ==
    Cardinality({k \in DOMAIN log : log[k].hook = "on_validation_epoch_end"})

\* a batch of the validation loader: batch_size and the scenario ids, which
\* name the epoch, the position of the step and the index in the batch
Batch(epoch, position, batch_size) ==
    [batch_size |-> batch_size,
     scenario_id |-> [bs_idx \in 1..batch_size |-> <<epoch, position, bs_idx>>]]

\* lines 104-169: self.pred_dicts after compute_official_evaluation
compute_official_evaluation(cfg, preds, batch_dict) ==
    IF Get(cfg, "eval_waymo", FALSE)
    THEN preds \o [bs_idx \in 1..batch_dict.batch_size |->
                     [format |-> "waymo",
                      scenario_id |-> batch_dict.scenario_id[bs_idx]]]
    ELSE IF Get(cfg, "eval_nuscenes", FALSE)
    THEN preds \o [bs_idx \in 1..batch_dict.batch_size |->
                     [format |-> "nuscenes",
                      scenario_id |-> batch_dict.scenario_id[bs_idx]]]
    ELSE preds

\* mutant: the list is not reset at the end of the epoch
EpochEndPredDicts_Kept(preds) == preds

\* line 76: self.pred_dicts = []
EpochEndPredDicts(preds) == <<>>

\* the outcomes of a step: it returns, forward raises, or log_info raises
StepOutcomes == {"ok", "forward", "log_info"}

InitModel ==
    /\ config \in Configs
    /\ pred_dicts = <<>> /\ calls = <<>> /\ evaluated = <<>>
    /\ hook_error = "none"
    /\ ConvIdle /\ PruneIdle /\ GeoIdle /\ AbbrIdle

\* lines 53-56
training_step ==
    /\ hook_error = "none" /\ Len(calls) < MaxCalls
    /\ \E outcome \in StepOutcomes :
          IF outcome = "ok"
          THEN /\ calls' = Append(calls, [hook |-> "training_step",
                                          batch_size |-> 0])
               /\ UNCHANGED hook_error
          ELSE /\ hook_error' = outcome
               /\ UNCHANGED calls
    /\ UNCHANGED <<config, pred_dicts, evaluated>>
    /\ UNCHANGED <<conv_vars, prune_vars, geo_vars, abbr_vars>>

\* lines 58-62
validation_step ==
    /\ hook_error = "none" /\ Len(calls) < MaxCalls
    /\ \E batch_size \in 0..MaxBatchSize : \E outcome \in StepOutcomes :
          LET batch == Batch(EpochsDone(calls), Len(calls), batch_size) IN
          /\ pred_dicts' =
                IF outcome = "forward" THEN pred_dicts
                ELSE compute_official_evaluation(config, pred_dicts, batch)
          /\ IF outcome = "ok"
             THEN /\ calls' = Append(calls, [hook |-> "validation_step",
                                             batch_size |-> batch_size])
                  /\ UNCHANGED hook_error
             ELSE /\ hook_error' = outcome
                  /\ UNCHANGED calls
    /\ UNCHANGED <<config, evaluated>>
    /\ UNCHANGED <<conv_vars, prune_vars, geo_vars, abbr_vars>>

\* lines 64-76; the metric functions and json.dump may raise
on_validation_epoch_end ==
    /\ hook_error = "none" /\ Len(calls) < MaxCalls
    /\ LET metric ==
            IF Get(config, "eval_waymo", FALSE) THEN "waymo"
            ELSE IF Get(config, "eval_nuscenes", FALSE) THEN "nuscenes"
            ELSE "none"
       IN  /\ evaluated' =
                 IF metric = "none" THEN evaluated
                 ELSE Append(evaluated, [metric |-> metric,
                                         epoch |-> EpochsDone(calls),
                                         pred_dicts |-> pred_dicts])
           /\ \E outcome \in {"ok", "metrics"} :
                 IF outcome = "ok" \/ metric = "none"
                 THEN /\ pred_dicts' = EpochEndPredDicts(pred_dicts)
                      /\ calls' = Append(calls,
                                         [hook |-> "on_validation_epoch_end",
                                          batch_size |-> 0])
                      /\ UNCHANGED hook_error
                 ELSE /\ hook_error' = outcome
                      /\ UNCHANGED <<pred_dicts, calls>>
    /\ UNCHANGED config
    /\ UNCHANGED <<conv_vars, prune_vars, geo_vars, abbr_vars>>

NextModel == training_step \/ validation_step \/ on_validation_epoch_end

SpecModel == InitModel /\ [][NextModel]_vars

\* one of the two evaluation flags is set
Evaluates(cfg) ==
    Get(cfg, "eval_waymo", FALSE) \/ Get(cfg, "eval_nuscenes", FALSE)

\* the sum of batch_size over the validation steps completed since the last
\* on_validation_epoch_end
RECURSIVE BatchSizesSinceEpochEnd(_)
BatchSizesSinceEpochEnd(log) ==
    IF log = <<>> THEN 0
    ELSE IF log[Len(log)].hook = "on_validation_epoch_end" THEN 0
    ELSE log[Len(log)].batch_size
         + BatchSizesSinceEpochEnd(SubSeq(log, 1, Len(log) - 1))

\* C23: in every configuration pred_dicts is empty after every completed
\* on_validation_epoch_end; between two epoch ends it holds exactly
\* batch_size entries for each completed validation_step when eval_waymo or
\* eval_nuscenes is set and stays empty when neither is; every list handed
\* to the metrics holds only predictions of the epoch that is ending.
C23_PredDictsResetEachEpoch ==
    /\ hook_error = "none" =>
          /\ (calls # <<>>
              /\ calls[Len(calls)].hook = "on_validation_epoch_end") =>
                 pred_dicts = <<>>
          /\ Len(pred_dicts) =
                (IF Evaluates(config) THEN BatchSizesSinceEpochEnd(calls)
                 ELSE 0)
    /\ \A e \in DOMAIN evaluated :
          \A p \in DOMAIN evaluated[e].pred_dicts :
              evaluated[e].pred_dicts[p].scenario_id[1] = evaluated[e].epoch

\* C23 witness: with eval_nuscenes set and eval_waymo False, two validation
\* epochs ended; the first handed two predictions to the metrics, the second
\* one, and pred_dicts is empty again.
C23_Witness ==
    /\ hook_error = "none"
    /\ config = [eval_waymo |-> FALSE, eval_nuscenes |-> TRUE]
    /\ Len(evaluated) = 2
    /\ Len(evaluated[1].pred_dicts) = 2
    /\ Len(evaluated[2].pred_dicts) = 1
    /\ evaluated[2].pred_dicts[1].format = "nuscenes"
    /\ pred_dicts = <<>>
====
